---- MODULE Spec2Model ----
(***************************************************************************)
(* Model of redeem-rs: the flow-matrix builder (src/src/flow_matrix.rs),   *)
(* the path-finding client (src/src/circles.rs) and the redemption loop    *)
(* (src/src/main.rs, src/src/redeem.rs).                                   *)
(*                                                                         *)
(* Strings are sequences of one-character strings, so that to_lowercase,   *)
(* trim_start_matches, from_str_radix and hex::encode are computed the way *)
(* the code computes them.                                                 *)
(*                                                                         *)
(* Machine integers keep their wrap-around, at a reduced width: the code's *)
(* u16 (`i as u16`) is modelled U16Bits wide and its U256 U256Bits wide,   *)
(* so that the truncating cast and the wrapping sum are reached by inputs  *)
(* of a handful of vertices and one-digit amounts.                         *)
(***************************************************************************)
EXTENDS Integers, Sequences, FiniteSets, TLC

VARIABLES
    call,           \* create_flow_matrix: the arguments of the call, or NoCall
    ret,            \* create_flow_matrix: what the call produced, or NoCall
    response,       \* find_path: the HTTP response received, or NoCall
    path_ret,       \* find_path: what the call produced, or NoCall
    pc,             \* main: "start", "loop", "done"
    subscriptions,  \* main: the fetched list
    cursor,         \* main: 1-based position of the next subscription in the loop
    attempts,       \* main: outcome of redeem_payment per attempted subscription
    main_ret        \* main: its return value, or NoCall

vars == <<call, ret, response, path_ret, pc, subscriptions, cursor, attempts, main_ret>>

NoCall == [tag |-> "None"]

\* ------------------------------------------------------------------ bounds

\* Modelled width of u16 (16 in the source).
U16Bits == 2
\* Modelled width of U256 (256 in the source).
U256Bits == 4
\* Longest transfer list handed to create_flow_matrix.
MaxTransfers == 2
\* Longest list fetch_redeemable_subscriptions returns.
MaxSubs == 3

RECURSIVE Pow2(_)
Pow2(n) == IF n = 0 THEN 1 ELSE 2 * Pow2(n - 1)

U16Mod == Pow2(U16Bits)
U256Mod == Pow2(U256Bits)

\* ----------------------------------------------------------------- strings

DigitChars == <<"0", "1", "2", "3", "4", "5", "6", "7", "8", "9">>
LowerChars == <<"a", "b", "c", "d", "e", "f", "g", "h", "i", "j", "k", "l", "m",
                "n", "o", "p", "q", "r", "s", "t", "u", "v", "w", "x", "y", "z">>
UpperChars == <<"A", "B", "C", "D", "E", "F", "G", "H", "I", "J", "K", "L", "M",
                "N", "O", "P", "Q", "R", "S", "T", "U", "V", "W", "X", "Y", "Z">>

Range(s) == {s[i] : i \in DOMAIN s}

\* char::to_lowercase on ASCII, as a table.
LowerTable ==
    [c \in Range(UpperChars) |-> LowerChars[CHOOSE i \in DOMAIN UpperChars : UpperChars[i] = c]]
LowerChar(c) == IF c \in DOMAIN LowerTable THEN LowerTable[c] ELSE c

\* str::to_lowercase
to_lowercase(s) == [i \in DOMAIN s |-> LowerChar(s[i])]

\* str::trim_start_matches("0x"): strips every leading repetition of the pattern.
RECURSIVE trim_start_matches_0x(_)
trim_start_matches_0x(s) ==
    IF Len(s) >= 2 /\ s[1] = "0" /\ s[2] = "x"
    THEN trim_start_matches_0x(SubSeq(s, 3, Len(s)))
    ELSE s

\* The value of one character as a digit: 0-9, then a-z and A-Z as 10..35;
\* -1 for a character that is no digit ('-', '+', ' ', ...).
DigitTable ==
    [c \in Range(DigitChars) \cup Range(LowerChars) \cup Range(UpperChars) |->
        IF c \in Range(DigitChars) THEN (CHOOSE i \in DOMAIN DigitChars : DigitChars[i] = c) - 1
        ELSE IF c \in Range(LowerChars)
        THEN (CHOOSE i \in DOMAIN LowerChars : LowerChars[i] = c) + 9
        ELSE (CHOOSE i \in DOMAIN UpperChars : UpperChars[i] = c) + 9]
DigitValue(c) == IF c \in DOMAIN DigitTable THEN DigitTable[c] ELSE -1

RECURSIVE BaseValue(_, _)
BaseValue(s, radix) ==
    IF s = <<>> THEN 0
    ELSE BaseValue(SubSeq(s, 1, Len(s) - 1), radix) * radix + DigitValue(s[Len(s)])

\* U256::from_str_radix(src, radix): Err on a character that is no digit of the
\* radix (a sign included) and on a value that does not fit the integer's width.
\* The strings parsed here hold no '_', which the parser would skip.
from_str_radix(src, radix) ==
    IF \E i \in DOMAIN src : DigitValue(src[i]) < 0 \/ DigitValue(src[i]) >= radix
    THEN [ok |-> FALSE, val |-> 0]
    ELSE IF BaseValue(src, radix) >= U256Mod
    THEN [ok |-> FALSE, val |-> 0]
    ELSE [ok |-> TRUE, val |-> BaseValue(src, radix)]

\* The comparator's key in transform_to_flow_vertices.
AddressValue(a) == from_str_radix(trim_start_matches_0x(a), 16)

\* `i as u16`: the truncating cast of a usize.
as_u16(i) == i % U16Mod

\* hex::encode of one byte: two lowercase hex digits.
HexDigit(n) == IF n < 10 THEN DigitChars[n + 1] ELSE LowerChars[n - 9]
HexByte(b) == <<HexDigit(b \div 16), HexDigit(b % 16)>>

RECURSIVE Flatten(_)
Flatten(ss) == IF ss = <<>> THEN <<>> ELSE Head(ss) \o Flatten(Tail(ss))

pack_coordinates(coords) ==
    <<"0", "x">> \o
    Flatten([i \in DOMAIN coords |->
                HexByte((coords[i] \div 256) % 256) \o HexByte(coords[i] % 256)])

\* ------------------------------------------------ flow_matrix.rs: the builder

Panic(at) == [tag |-> "Panic", at |-> at]

\* The set the HashSet of transform_to_flow_vertices ends up holding.
VertexSet(transfers, from, to) ==
    {to_lowercase(from), to_lowercase(to)}
    \cup {to_lowercase(transfers[i].from) : i \in DOMAIN transfers}
    \cup {to_lowercase(transfers[i].to) : i \in DOMAIN transfers}
    \cup {to_lowercase(transfers[i].token_owner) : i \in DOMAIN transfers}

\* Every order sort_by can leave the set's elements in: ascending by numeric
\* value, elements of equal value in the (arbitrary) order the HashSet
\* iterated them in.
RECURSIVE SortedOrders(_)
SortedOrders(S) ==
    IF S = {} THEN {<<>>}
    ELSE UNION {{<<m>> \o rest : rest \in SortedOrders(S \ {m})} :
                m \in {x \in S : \A y \in S : AddressValue(x).val <= AddressValue(y).val}}

\* The index lookup built from a sorted list: the position, cast to u16.
IndexMap(sorted) ==
    [a \in Range(sorted) |-> as_u16((CHOOSE i \in DOMAIN sorted : sorted[i] = a) - 1)]

\* The outcomes of transform_to_flow_vertices. The comparator unwraps the
\* parse of both sides, and a sort of two or more elements compares every one.
transform_to_flow_vertices(transfers, from, to) ==
    LET set == VertexSet(transfers, from, to) IN
    IF Cardinality(set) >= 2 /\ \E a \in set : ~AddressValue(a).ok
    THEN {Panic("sort_by: from_str_radix(..).unwrap()")}
    ELSE {[tag |-> "Ok", sorted |-> sorted, idx |-> IndexMap(sorted)] :
            sorted \in SortedOrders(set)}

\* flow_edges as first collected: terminal iff `to` lowercases to the receiver.
ClassifiedEdges(transfers, receiver) ==
    [i \in DOMAIN transfers |->
        [stream_sink_id |-> IF to_lowercase(transfers[i].to) = receiver THEN 1 ELSE 0,
         amount |-> transfers[i].value]]

\* Iterator::rposition over the lowercased `to` addresses (0-based), or -1 for None.
RPosition(transfers, receiver) ==
    LET hits == {i \in DOMAIN transfers : to_lowercase(transfers[i].to) = receiver} IN
    IF hits = {} THEN -1 ELSE (CHOOSE i \in hits : \A j \in hits : j <= i) - 1

\* EnsureTerminal with the fallback promoting the first edge instead of the last.
EnsureTerminal_PromoteFirst(edges, transfers, receiver) ==
    IF \E i \in DOMAIN edges : edges[i].stream_sink_id = 1
    THEN [tag |-> "Ok", edges |-> edges]
    ELSE IF Len(edges) = 0
    THEN Panic("flow_edges.len() - 1")
    ELSE [tag |-> "Ok", edges |-> [edges EXCEPT ![1].stream_sink_id = 1]]

\* "Ensure at least one terminal edge". The fallback index `flow_edges.len() - 1`
\* is computed before unwrap_or looks at the Option; on an empty list the
\* subtraction overflows (debug) or the index is out of bounds (release).
EnsureTerminal(edges, transfers, receiver) ==
    IF \E i \in DOMAIN edges : edges[i].stream_sink_id = 1
    THEN [tag |-> "Ok", edges |-> edges]
    ELSE IF Len(edges) = 0
    THEN Panic("flow_edges.len() - 1")
    ELSE LET last_edge_index ==
                IF RPosition(transfers, receiver) >= 0
                THEN RPosition(transfers, receiver)
                ELSE Len(edges) - 1
         IN [tag |-> "Ok",
             edges |-> [edges EXCEPT ![last_edge_index + 1].stream_sink_id = 1]]

\* Positions (0-based, cast to u16) of the terminal edges, in order.
RECURSIVE TermEdgeIds(_, _)
TermEdgeIds(edges, n) ==
    IF n = 0 THEN <<>>
    ELSE TermEdgeIds(edges, n - 1) \o
         (IF edges[n].stream_sink_id = 1 THEN <<as_u16(n - 1)>> ELSE <<>>)

\* coords: token_owner, from, to of every transfer, in that order.
Coords(transfers, idx) ==
    Flatten([i \in DOMAIN transfers |->
                <<idx[to_lowercase(transfers[i].token_owner)],
                  idx[to_lowercase(transfers[i].from)],
                  idx[to_lowercase(transfers[i].to)]>>])

TerminalAmounts(edges) ==
    SelectSeq(edges, LAMBDA e : e.stream_sink_id = 1)

\* Iterator::sum over U256: the addition wraps at the integer's width.
RECURSIVE WrappingSum(_)
WrappingSum(amounts) ==
    IF amounts = <<>> THEN 0
    ELSE (from_str_radix(Head(amounts).amount, 10).val + WrappingSum(Tail(amounts))) % U256Mod

\* create_flow_matrix continued after the vertices are known.
FlowMatrixFrom(tv, sender, receiver, value, transfers) ==
    LET et == EnsureTerminal(ClassifiedEdges(transfers, receiver), transfers, receiver) IN
    IF et.tag = "Panic" THEN et
    ELSE
    LET flow_edges == et.edges
        streams == <<[source_coordinate |-> tv.idx[sender],
                      flow_edge_ids |-> TermEdgeIds(flow_edges, Len(flow_edges)),
                      data |-> <<>>]>>
        packed_coordinates == pack_coordinates(Coords(transfers, tv.idx))
        expected == from_str_radix(value, 10)
        terminals == TerminalAmounts(flow_edges)
        terminal_sum == WrappingSum(terminals)
    IN
    IF ~expected.ok THEN [tag |-> "Err", kind |-> "ParseError"]
    ELSE IF \E i \in DOMAIN terminals : ~from_str_radix(terminals[i].amount, 10).ok
    THEN Panic("from_str_radix(&e.amount, 10).unwrap()")
    ELSE IF terminal_sum # expected.val
    THEN [tag |-> "Err", kind |-> "Terminal sum does not equal expected",
          terminal_sum |-> terminal_sum, expected |-> expected.val]
    ELSE [tag |-> "Ok",
          flow_vertices |-> tv.sorted,
          flow_edges |-> flow_edges,
          streams |-> streams,
          packed_coordinates |-> packed_coordinates,
          source_coordinate |-> tv.idx[sender]]

\* The outcomes of create_flow_matrix(from, to, value, transfers): Ok with the
\* matrix, Err, or Panic.
create_flow_matrix(from, to, value, transfers) ==
    LET sender == to_lowercase(from)
        receiver == to_lowercase(to)
    IN {IF tv.tag = "Panic" THEN tv
        ELSE FlowMatrixFrom(tv, sender, receiver, value, transfers) :
            tv \in transform_to_flow_vertices(transfers, sender, receiver)}

\* ------------------------------------------------------- inputs of the builder

SourceAddrs == {<<"0", "x", "1">>, <<"0", "x", "C">>}
SinkAddrs == {<<"0", "x", "A">>, <<"0", "x", "0", "1">>}
FromAddrs == {<<"0", "x", "1">>, <<"0", "x", "3">>}
ToAddrs == {<<"0", "x", "A">>, <<"0", "x", "3">>, <<"0", "x", "0", "1">>}
OwnerAddrs == {<<"0", "x", "5">>, <<"0", "x", "g">>}
Values == {<<"1">>, <<"8">>, <<"-", "1">>}
Targets == {<<"1">>, <<"2">>, <<"0">>, <<"-", "1">>}

TransferStep == [from : FromAddrs, to : ToAddrs, token_owner : OwnerAddrs, value : Values]

TransferLists == UNION {[1..n -> TransferStep] : n \in 0..MaxTransfers}

\* One call of create_flow_matrix, on any input of the pools above.
CallCreateFlowMatrix ==
    /\ call = NoCall
    /\ \E from \in SourceAddrs, to \in SinkAddrs, value \in Targets, transfers \in TransferLists :
        /\ call' = [tag |-> "Call", from |-> from, to |-> to, value |-> value,
                    transfers |-> transfers]
        /\ ret' \in create_flow_matrix(from, to, value, transfers)
    /\ UNCHANGED <<response, path_ret, pc, subscriptions, cursor, attempts, main_ret>>

Init ==
    /\ call = NoCall
    /\ ret = NoCall
    /\ response = NoCall
    /\ path_ret = NoCall
    /\ pc = "start"
    /\ subscriptions = <<>>
    /\ cursor = 1
    /\ attempts = <<>>
    /\ main_ret = NoCall

Next == CallCreateFlowMatrix

Spec == Init /\ [][Next]_vars

\* ------------------------------------------- claims about create_flow_matrix

Returned == call # NoCall
ReturnedOk == ret.tag = "Ok"
Sender == to_lowercase(call.from)
Receiver == to_lowercase(call.to)
ToIsSink(i) == to_lowercase(call.transfers[i].to) = Receiver

\* A non-negative decimal integer string.
IsDecimal(s) == Len(s) > 0 /\ \A i \in DOMAIN s : s[i] \in Range(DigitChars)

\* The exact (unbounded) integer sum of the terminal edges' amounts.
RECURSIVE ExactSum(_)
ExactSum(edges) ==
    IF edges = <<>> THEN 0
    ELSE (IF Head(edges).stream_sink_id = 1 THEN BaseValue(Head(edges).amount, 10) ELSE 0)
         + ExactSum(Tail(edges))

StrictlyAscending(vs) ==
    \A i, j \in DOMAIN vs : i < j => AddressValue(vs[i]).val < AddressValue(vs[j]).val

\* The bytes a "0x"-prefixed hex string decodes to.
RECURSIVE HexDecode(_)
HexDecode(h) ==
    IF Len(h) < 2 THEN <<>>
    ELSE <<DigitValue(h[1]) * 16 + DigitValue(h[2])>> \o HexDecode(SubSeq(h, 3, Len(h)))
PackedBytes == HexDecode(SubSeq(ret.packed_coordinates, 3, Len(ret.packed_coordinates)))
\* The big-endian 16-bit value at byte offset o (0-based).
U16At(bytes, o) == bytes[o + 1] * 256 + bytes[o + 2]
\* flow_vertices[k], k 0-based; a string no address has when k is out of range.
VertexAt(k) == IF k + 1 \in DOMAIN ret.flow_vertices THEN ret.flow_vertices[k + 1] ELSE <<>>

\* C1: whenever create_flow_matrix returns Ok, the exact integer sum of the
\* amounts of the edges with stream_sink_id = 1 equals targetAmount.
C1_TerminalSumIsTarget ==
    ReturnedOk => ExactSum(ret.flow_edges) = BaseValue(call.value, 10)

\* C2: in a returned matrix flow_vertices is strictly ascending by numeric value
\* (so no two entries share a value), holds the lowercased source and sink, and
\* holds exactly the vertices the call touches.
C2_VerticesStrictlySorted ==
    ReturnedOk =>
        /\ StrictlyAscending(ret.flow_vertices)
        /\ Sender \in Range(ret.flow_vertices)
        /\ Receiver \in Range(ret.flow_vertices)
        /\ Range(ret.flow_vertices) = VertexSet(call.transfers, call.from, call.to)

\* C3: in a returned matrix packed_coordinates decodes to 6 bytes per transfer,
\* and the three 16-bit values of transfer i index its tokenOwner, from and to
\* in flow_vertices.
C3_PackedCoordinatesDecode ==
    ReturnedOk =>
        /\ Len(PackedBytes) = 6 * Len(call.transfers)
        /\ \A i \in DOMAIN call.transfers :
            /\ VertexAt(U16At(PackedBytes, 6 * (i - 1)))
                 = to_lowercase(call.transfers[i].token_owner)
            /\ VertexAt(U16At(PackedBytes, 6 * (i - 1) + 2))
                 = to_lowercase(call.transfers[i].from)
            /\ VertexAt(U16At(PackedBytes, 6 * (i - 1) + 4))
                 = to_lowercase(call.transfers[i].to)

\* C4: in a returned matrix edge i carries transfer i's value; if some `to` is
\* the sink, the terminal edges are exactly those whose `to` is the sink,
\* otherwise exactly the last edge is terminal; some edge is terminal.
C4_EdgeClassification ==
    ReturnedOk =>
        /\ Len(ret.flow_edges) = Len(call.transfers)
        /\ \A i \in DOMAIN call.transfers : ret.flow_edges[i].amount = call.transfers[i].value
        /\ \A i \in DOMAIN ret.flow_edges : ret.flow_edges[i].stream_sink_id \in {0, 1}
        /\ (\E i \in DOMAIN call.transfers : ToIsSink(i)) =>
              \A i \in DOMAIN call.transfers :
                  ret.flow_edges[i].stream_sink_id = 1 <=> ToIsSink(i)
        /\ ~(\E i \in DOMAIN call.transfers : ToIsSink(i)) =>
              \A i \in DOMAIN call.transfers :
                  ret.flow_edges[i].stream_sink_id = 1 <=> i = Len(call.transfers)
        /\ \E i \in DOMAIN ret.flow_edges : ret.flow_edges[i].stream_sink_id = 1

\* C4's case: a matrix returned for two transfers none of which reaches the sink.
C4_Witness ==
    /\ ReturnedOk
    /\ Len(call.transfers) = 2
    /\ \A i \in DOMAIN call.transfers : ~ToIsSink(i)

\* The 0-based positions of the terminal edges, ascending, as a sequence.
RECURSIVE TerminalPositions(_, _)
TerminalPositions(edges, n) ==
    IF n = 0 THEN <<>>
    ELSE TerminalPositions(edges, n - 1) \o
         (IF edges[n].stream_sink_id = 1 THEN <<n - 1>> ELSE <<>>)

\* C5: a returned matrix has exactly one stream; its source_coordinate is the
\* position of the canonical source in flow_vertices and equals the matrix's
\* source_coordinate, its flow_edge_ids are the positions of the terminal edges
\* in ascending order, its data is empty.
C5_SingleStream ==
    ReturnedOk =>
        /\ Len(ret.streams) = 1
        /\ VertexAt(ret.streams[1].source_coordinate) = Sender
        /\ ret.streams[1].source_coordinate = ret.source_coordinate
        /\ ret.streams[1].flow_edge_ids = TerminalPositions(ret.flow_edges, Len(ret.flow_edges))
        /\ ret.streams[1].data = <<>>

\* C6: a call that touches more distinct vertices than the index width can
\* number fails; it never returns a matrix (whose indices would be truncated).
C6_VertexOverflowFails ==
    (Returned /\ Cardinality(VertexSet(call.transfers, call.from, call.to)) > U16Mod)
        => ~ReturnedOk

\* C7: a call whose targetAmount, or whose value of any transfer (terminal or
\* not), is not a non-negative decimal integer string fails; it returns no matrix.
C7_InvalidAmountFails ==
    (Returned /\ (~IsDecimal(call.value)
                  \/ \E i \in DOMAIN call.transfers : ~IsDecimal(call.transfers[i].value)))
        => ~ReturnedOk

\* C9: every call returns Ok or Err; none panics.
C9_NeverPanics ==
    Returned => ret.tag \in {"Ok", "Err"}

\* ------------------------------------------------- circles.rs: find_path

None == [some |-> FALSE]
Some(v) == [some |-> TRUE, val |-> v]

\* StatusCode::is_success
is_success(status) == 200 <= status /\ status < 300

\* find_path with the match looking at the error before the result.
find_path_ErrorFirst(resp) ==
    IF resp.tag = "SendError" THEN [tag |-> "Err", kind |-> "reqwest: send"]
    ELSE IF ~is_success(resp.status)
    THEN [tag |-> "Err", kind |-> "Pathfinder RPC returned HTTP", status |-> resp.status]
    ELSE IF resp.body.tag = "Undecodable" THEN [tag |-> "Err", kind |-> "reqwest: decode"]
    ELSE IF resp.body.error.some
    THEN [tag |-> "Err", kind |-> "Pathfinder RPC error",
          code |-> resp.body.error.val.code, message |-> resp.body.error.val.message]
    ELSE IF resp.body.result.some THEN [tag |-> "Ok", val |-> resp.body.result.val]
    ELSE [tag |-> "Err", kind |-> "Pathfinder RPC error",
          code |-> -1, message |-> "Unknown error"]

\* The outcome of find_path on what came back from the POST: `response` is
\* SendError (send().await failed), or a status with a body that is either
\* Undecodable or an RpcResponse {result, error}.
find_path(resp) ==
    IF resp.tag = "SendError" THEN [tag |-> "Err", kind |-> "reqwest: send"]
    ELSE IF ~is_success(resp.status)
    THEN [tag |-> "Err", kind |-> "Pathfinder RPC returned HTTP", status |-> resp.status]
    ELSE IF resp.body.tag = "Undecodable" THEN [tag |-> "Err", kind |-> "reqwest: decode"]
    ELSE IF resp.body.result.some THEN [tag |-> "Ok", val |-> resp.body.result.val]
    ELSE LET error == IF resp.body.error.some THEN resp.body.error.val
                      ELSE [code |-> -1, message |-> "Unknown error"]
         IN [tag |-> "Err", kind |-> "Pathfinder RPC error",
             code |-> error.code, message |-> error.message]

\* Inputs: what the service can answer.
Statuses == {200, 204, 404, 500}
RpcErrors == [code : {-1, 0, -32000}, message : {"Unknown error", "No path found"}]
PathfindingResults ==
    {[max_flow |-> <<"1">>, transfers |-> <<>>],
     [max_flow |-> <<"1">>,
      transfers |-> <<[from |-> <<"0", "x", "1">>, to |-> <<"0", "x", "A">>,
                       token_owner |-> <<"0", "x", "5">>, value |-> <<"1">>]>>],
     [max_flow |-> <<"8">>,
      transfers |-> <<[from |-> <<"0", "x", "1">>, to |-> <<"0", "x", "A">>,
                       token_owner |-> <<"0", "x", "5">>, value |-> <<"8">>]>>]}
Bodies ==
    {[tag |-> "Undecodable"]}
    \cup [tag : {"Json"},
          result : {None} \cup {Some(r) : r \in PathfindingResults},
          error : {None} \cup {Some(e) : e \in RpcErrors}]
Responses ==
    {[tag |-> "SendError"]} \cup [tag : {"Http"}, status : Statuses, body : Bodies]

\* One call of find_path: the request goes out, `resp` comes back.
CallFindPath ==
    /\ response = NoCall
    /\ \E resp \in Responses :
        /\ response' = resp
        /\ path_ret' = find_path(resp)
    /\ UNCHANGED <<call, ret, pc, subscriptions, cursor, attempts, main_ret>>

NextFindPath == CallFindPath

SpecFindPath == Init /\ [][NextFindPath]_vars

\* ----------------------------------------------------- claims about find_path

Answered == response # NoCall /\ response.tag = "Http"
SuccessJson == Answered /\ is_success(response.status) /\ response.body.tag = "Json"
RpcFailure(code, message) ==
    [tag |-> "Err", kind |-> "Pathfinder RPC error", code |-> code, message |-> message]

Submissions == {"ModuleErr", "SendErr", "WaitErr", "ReceiptSuccess", "ReceiptFailure"}

\* The outcomes of redeem_payment(subscription) when the path-finder answers
\* `resp`, the chain answers `submission`, and Address::parse_checksummed accepts
\* the matrix's vertices or not (`checksums_ok`; the EIP-55 hash is not computed
\* here). Every `?` returns the callee's Err; every unwrap() panics.
redeem_payment(subscription, resp, checksums_ok, submission) ==
    LET path == find_path(resp) IN
    IF path.tag = "Err" THEN {[tag |-> "Err", from |-> "find_path"]}
    ELSE
    {IF m.tag = "Panic" THEN m
     ELSE IF m.tag = "Err" THEN [tag |-> "Err", from |-> "create_flow_matrix"]
     ELSE IF ~checksums_ok THEN Panic("Address::parse_checksummed(..).unwrap()")
     ELSE IF submission = "ModuleErr" THEN [tag |-> "Err", from |-> "parse_checksummed"]
     ELSE IF submission = "SendErr" THEN [tag |-> "Err", from |-> "send"]
     ELSE IF submission = "WaitErr" THEN [tag |-> "Err", from |-> "wait"]
     ELSE [tag |-> "Ok", val |-> (submission = "ReceiptSuccess")] :
        m \in create_flow_matrix(subscription.subscriber, subscription.recipient,
                                 subscription.amount, path.val.transfers)}

RedeemableSubscription ==
    [recipient : {<<"0", "x", "A">>}, subscriber : {<<"0", "x", "1">>},
     amount : {<<"1">>, <<"8">>}, module : {<<"0", "x", "7">>}, sub_id : {1}]

SubscriptionLists == UNION {[1..n -> RedeemableSubscription] : n \in 0..MaxSubs}

\* main, line 6: fetch_redeemable_subscriptions().await? -- an Err ends main.
Fetch ==
    /\ pc = "start"
    /\ \/ /\ \E subs \in SubscriptionLists : subscriptions' = subs
          /\ pc' = "loop"
          /\ UNCHANGED main_ret
       \/ /\ pc' = "done"
          /\ main_ret' = [tag |-> "Err", from |-> "fetch_redeemable_subscriptions"]
          /\ UNCHANGED subscriptions
    /\ UNCHANGED <<call, ret, response, path_ret, cursor, attempts>>

\* The loop body with the error logged and skipped instead of returned with `?`.
Redeem_ContinueOnErr ==
    /\ pc = "loop"
    /\ cursor <= Len(subscriptions)
    /\ \E resp \in Responses, checksums_ok \in BOOLEAN, submission \in Submissions :
        \E outcome \in redeem_payment(subscriptions[cursor], resp, checksums_ok, submission) :
            /\ attempts' = Append(attempts, outcome)
            /\ cursor' = cursor + 1
            /\ UNCHANGED <<pc, main_ret>>
    /\ UNCHANGED <<call, ret, response, path_ret, subscriptions>>

\* main, lines 8-10, one iteration: redeem_payment(subscription).await? -- an
\* Err is returned from main at once; a panic ends the process.
Redeem ==
    /\ pc = "loop"
    /\ cursor <= Len(subscriptions)
    /\ \E resp \in Responses, checksums_ok \in BOOLEAN, submission \in Submissions :
        \E outcome \in redeem_payment(subscriptions[cursor], resp, checksums_ok, submission) :
            /\ attempts' = Append(attempts, outcome)
            /\ IF outcome.tag = "Ok"
               THEN /\ cursor' = cursor + 1
                    /\ UNCHANGED <<pc, main_ret>>
               ELSE /\ pc' = "done"
                    /\ main_ret' = outcome
                    /\ UNCHANGED cursor
    /\ UNCHANGED <<call, ret, response, path_ret, subscriptions>>

\* main, line 11: the loop ran out, Ok(()).
Finish ==
    /\ pc = "loop"
    /\ cursor > Len(subscriptions)
    /\ pc' = "done"
    /\ main_ret' = [tag |-> "Ok"]
    /\ UNCHANGED <<call, ret, response, path_ret, subscriptions, cursor, attempts>>

NextMain == Fetch \/ Redeem \/ Finish

SpecMain == Init /\ [][NextMain]_vars

\* -------------------------------------------------------- claims about main

Failed(k) == attempts[k].tag # "Ok"

\* C10: when main has ended, every subscription that follows one whose
\* redeem_payment failed has been attempted all the same.
C10_LaterSubscriptionsAttempted ==
    pc = "done" =>
        \A k \in DOMAIN attempts :
            Failed(k) => \A j \in DOMAIN subscriptions : j > k => j \in DOMAIN attempts

\* C10 as amended: a failed redeem_payment is the last attempt main makes: main
\* has ended with that failure as its result, and no subscription after it is
\* ever attempted; the next subscription is attempted only after an Ok.
C10_FailureEndsTheLoop ==
    \A k \in DOMAIN attempts :
        /\ Failed(k) => (k = Len(attempts) /\ pc = "done" /\ main_ret = attempts[k])
        /\ k < Len(attempts) => attempts[k].tag = "Ok"

\* C10's case: a redeem_payment failed with subscriptions still to come.
C10_Witness ==
    /\ pc = "done"
    /\ \E k \in DOMAIN attempts : Failed(k) /\ k < Len(subscriptions)

====
